---- MODULE Spec2Model ----
(***************************************************************************)
(* Model of src/utils.py: StylisticExtractorUtils (scan_repository,        *)
(* read_files, extraction, save_draft) and the driver main.                *)
(*                                                                         *)
(* Four specifications share the variables:                                *)
(*   ScanSpec  - scan_repository applied to bounded repositories,          *)
(*   ReadSpec  - read_files applied to bounded path sequences,             *)
(*   Spec      - one session object, extraction and save_draft called in   *)
(*               any order by a client,                                    *)
(*   MainSpec  - one run of main.                                          *)
(***************************************************************************)
EXTENDS Integers, Sequences, FiniteSets, TLC

\* ---------------------------------------------------------------- bounds
MaxRepo == 3
MaxN == 3
MaxExts == 2
MaxPaths == 3
MaxSubmits == 3

\* ------------------------------------------------------ program constants
MAX_FILES == 20
OUTPUT_FILE == "coding_stylistic_guide_DRAFT.md"
None == "None"

\* ------------------------------------------------------------ environment
\* Suffixes of the files that may lie under the repository root.
Suffixes == {".py", ".js", ".md"}
\* Extensions a caller may ask for.
Exts == {".py", ".js"}
\* Texts the service may generate.
Texts == {"guide_a", "guide_b"}

RECURSIVE SeqsUpTo(_, _)
SeqsUpTo(S, n) ==
    IF n = 0 THEN {<<>>}
    ELSE LET shorter == SeqsUpTo(S, n - 1)
         IN  shorter \cup {Append(s, x) : s \in shorter, x \in S}

\* self.repo_path = Path(code_repository_path)
repo_path == "repo"

\* A path beneath the root; stems are unique per file.
PathOf(i, suffix) == [parent |-> repo_path, stem |-> i, suffix |-> suffix]

\* A repository listing, in the order os traversal yields its files.
RepoOf(suffixes) == [i \in 1..Len(suffixes) |-> PathOf(i, suffixes[i])]
Repos == {RepoOf(s) : s \in SeqsUpTo(Suffixes, MaxRepo)}

\* Content of a file: a sequence of lines (file number i holds i lines).
FileText(p) == [k \in 1..p.stem |-> "code"]

\* ---------------------------------------------------------- scan_repository
\* extensions argument: not given (None) or an ordered list.
NotGiven == [given |-> FALSE, list |-> <<>>]
Given(l) == [given |-> TRUE, list |-> l]
ExtensionArgs == {NotGiven} \cup {Given(l) : l \in SeqsUpTo(Exts, MaxExts)}

\* if extensions is None: extensions = [".py"]
Extensions(arg) == IF arg.given THEN arg.list ELSE <<".py">>

\* self.repo_path.rglob(f'*{ext}')
RGlob(fs, ext) == SelectSeq(fs, LAMBDA p : p.suffix = ext)

\* inner loop: append, then test the count, break leaves this loop only
RECURSIVE ScanOneExtension(_, _, _)
ScanOneExtension(matches, code_files_, N) ==
    IF matches = <<>> THEN code_files_
    ELSE LET appended == Append(code_files_, Head(matches))
         IN  IF Len(appended) >= N THEN appended
             ELSE ScanOneExtension(Tail(matches), appended, N)

\* outer loop over the extensions, in the order given
RECURSIVE ScanExtensions(_, _, _, _)
ScanExtensions(fs, exts, code_files_, N) ==
    IF exts = <<>> THEN code_files_
    ELSE ScanExtensions(fs, Tail(exts),
                        ScanOneExtension(RGlob(fs, Head(exts)), code_files_, N), N)

ScanRepositoryResult(fs, N, arg) == ScanExtensions(fs, Extensions(arg), <<>>, N)

\* ---------------------------------------------------------------- read_files
ReadOutcomes == {"ok", "open_error", "decode_error"}

\* filepath.relative_to(self.repo_path)
IsRelativeTo(p, base) == p.parent = base
RelativeTo(p, base) == [stem |-> p.stem, suffix |-> p.suffix]

\* except Exception as e: every per-file failure is caught
ReadCaughtOSErrorOnly(kind) == kind = "open_error"
ReadCaught(kind) == kind \in {"open_error", "decode_error", "value_error"}

\* what happens for one file inside the try block
ReadOne(p, outcome) ==
    IF outcome # "ok" THEN [kind |-> outcome]
    ELSE IF ~IsRelativeTo(p, repo_path) THEN [kind |-> "value_error"]
    ELSE [kind |-> "ok",
          sample |-> [path |-> RelativeTo(p, repo_path),
                      content |-> FileText(p),
                      lines |-> Len(FileText(p))]]

RECURSIVE ReadLoop(_, _, _, _, _)
ReadLoop(fps, outs, i, samples, total_lines) ==
    IF i > Len(fps)
    THEN [samples |-> samples, total_lines |-> total_lines, raised |-> FALSE]
    ELSE LET r == ReadOne(fps[i], outs[i])
         IN  IF r.kind = "ok"
             THEN ReadLoop(fps, outs, i + 1, Append(samples, r.sample),
                           total_lines + r.sample.lines)
             ELSE IF ReadCaught(r.kind)
             THEN ReadLoop(fps, outs, i + 1, samples, total_lines)
             ELSE [samples |-> samples, total_lines |-> total_lines, raised |-> TRUE]

ReadFilesResult(fps, outs) == ReadLoop(fps, outs, 1, <<>>, 0)

\* --------------------------------------------------------------- extraction
\* How the call to the hosted service can end.
ServiceOutcomes ==
    {"ok", "network_error", "authentication_error", "rate_limit_error",
     "no_text", "no_usage"}

\* self.client.messages.create(...) raises
CreateRaises(outcome) ==
    outcome \in {"network_error", "authentication_error", "rate_limit_error"}

\* combined_code and the f-string prompt: fixed template around the samples
Prompt(samples) ==
    [template |-> "style_guide_request",
     files |-> [i \in 1..Len(samples) |->
                  [header |-> samples[i].path, body |-> samples[i].content]]]

UserTurn(prompt) == [role |-> "user", content |-> prompt]
AssistantTurn(text) == [role |-> "assistant", content |-> text]

\* A variant that records the requester turn before the service is called.
ExtractionResultEager(history, draft, prompt, outcome, text) ==
    IF CreateRaises(outcome) \/ outcome = "no_text"
    THEN [history |-> Append(history, UserTurn(prompt)), draft |-> draft,
          raised |-> TRUE]
    ELSE [history |-> Append(Append(history, UserTurn(prompt)), AssistantTurn(text)),
          draft |-> text, raised |-> outcome = "no_usage"]

\* extraction, from the service call to the return
ExtractionResult(history, draft, prompt, outcome, text) ==
    IF CreateRaises(outcome)
    THEN [history |-> history, draft |-> draft, raised |-> TRUE]
    ELSE IF outcome = "no_text"
    THEN [history |-> history, draft |-> draft, raised |-> TRUE]
    ELSE [history |-> Append(Append(history, UserTurn(prompt)), AssistantTurn(text)),
          draft |-> text, raised |-> outcome = "no_usage"]

\* --------------------------------------------------------------- save_draft
\* How open(self.output_file, 'w') and f.write(content) can end.
WriteOutcomes == {"ok", "open_error", "write_error"}

WriteToDisk(text, write, file) ==
    CASE write = "ok" -> [status |-> "saved", disk |-> text, raised |-> FALSE]
      [] write = "open_error" ->
            [status |-> "write_error", disk |-> file, raised |-> FALSE]
      [] OTHER -> [status |-> "write_error", disk |-> "truncated", raised |-> FALSE]

\* A variant without the "No content to save!" guard: f.write(None) fails
\* inside the try block, after open(..., 'w') has truncated the file.
SaveDraftResultUnguarded(given, draft, write, file) ==
    LET text == IF given = None THEN draft ELSE given
    IN  IF text = None
        THEN IF write = "open_error"
             THEN [status |-> "write_error", disk |-> file, raised |-> FALSE]
             ELSE [status |-> "write_error", disk |-> "truncated", raised |-> FALSE]
        ELSE WriteToDisk(text, write, file)

\* A variant without the try/except around the write.
SaveDraftResultUncaught(given, draft, write, file) ==
    LET text == IF given = None THEN draft ELSE given
    IN  IF text = None
        THEN [status |-> "no_content", disk |-> file, raised |-> FALSE]
        ELSE [WriteToDisk(text, write, file) EXCEPT !.raised = write # "ok"]

SaveDraftResult(given, draft, write, file) ==
    LET text == IF given = None THEN draft ELSE given
    IN  IF text = None
        THEN [status |-> "no_content", disk |-> file, raised |-> FALSE]
        ELSE WriteToDisk(text, write, file)

\* --------------------------------------------------------------------- state
VARIABLES
    repo,                  \* files beneath the root, in traversal order
    disk,                  \* content of the file at OUTPUT_FILE
    max_files, extensions, \* arguments of the last scan_repository
    code_files,            \* value returned by the last scan_repository
    filepaths, outcomes,   \* argument of the last read_files, per-file outcome
    code_samples,          \* value returned by the last read_files
    conversation_history, current_draft,
    content,               \* argument of the last save_draft
    op,                    \* the method called last
    status,                \* how that call ended (its message to the operator)
    raised,                \* whether that call raised to its caller
    service_calls,         \* number of messages.create calls issued
    completed,             \* number of extraction calls that returned
    pc, trace              \* main: position, and the components invoked so far

vars == <<repo, disk, max_files, extensions, code_files, filepaths, outcomes,
          code_samples, conversation_history, current_draft, content, op,
          status, raised, service_calls, completed, pc, trace>>

\* __init__ and the values nothing has set yet
Constructed ==
    /\ code_files = <<>>
    /\ code_samples = <<>>
    /\ conversation_history = <<>>
    /\ current_draft = None
    /\ content = None
    /\ op = "init"
    /\ status = "none"
    /\ raised = FALSE
    /\ service_calls = 0
    /\ completed = 0
    /\ pc = "start"
    /\ trace = <<>>

DiskStates == {"absent", "old_guide"}

\* ------------------------------------------------------------------- actions
\* scan_repository(max_files, extensions) on the repository of the state
ScanRepository ==
    /\ op = "init"
    /\ code_files' = ScanRepositoryResult(repo, max_files, extensions)
    /\ op' = "scan_repository"
    /\ status' = "found"
    /\ raised' = FALSE
    /\ UNCHANGED <<repo, disk, max_files, extensions, filepaths, outcomes,
                   code_samples, conversation_history, current_draft, content,
                   service_calls, completed, pc, trace>>

\* read_files(filepaths), the files opening and decoding as outcomes says
ReadFiles ==
    /\ op = "init"
    /\ LET r == ReadFilesResult(filepaths, outcomes)
       IN  /\ code_samples' = IF r.raised THEN code_samples ELSE r.samples
           /\ status' = IF r.raised THEN "exception" ELSE "total"
           /\ raised' = r.raised
    /\ op' = "read_files"
    /\ UNCHANGED <<repo, disk, max_files, extensions, code_files, filepaths,
                   outcomes, conversation_history, current_draft, content,
                   service_calls, completed, pc, trace>>

\* Sample lists a client hands to extraction.
SampleInputs ==
    {ReadFilesResult(fps, [i \in 1..Len(fps) |-> "ok"]).samples :
        fps \in {<<>>, <<PathOf(1, ".py")>>, <<PathOf(2, ".py")>>}}

\* extraction(code_samples), the service answering as outcome says
Extraction ==
    /\ service_calls < MaxSubmits
    /\ \E samples \in SampleInputs, outcome \in ServiceOutcomes, text \in Texts :
        LET r == ExtractionResult(conversation_history, current_draft,
                                  Prompt(samples), outcome, text)
        IN  /\ code_samples' = samples
            /\ conversation_history' = r.history
            /\ current_draft' = r.draft
            /\ service_calls' = service_calls + 1
            /\ completed' = IF r.raised THEN completed ELSE completed + 1
            /\ op' = "extraction"
            /\ status' = outcome
            /\ raised' = r.raised
    /\ UNCHANGED <<repo, disk, max_files, extensions, code_files, filepaths,
                   outcomes, content, pc, trace>>

\* save_draft(content), the write ending as write says
SaveDraft ==
    /\ \E c \in {None} \cup Texts, write \in WriteOutcomes :
        LET r == SaveDraftResult(c, current_draft, write, disk)
        IN  /\ content' = c
            /\ disk' = r.disk
            /\ op' = "save_draft"
            /\ status' = r.status
            /\ raised' = r.raised
    /\ UNCHANGED <<repo, max_files, extensions, code_files, filepaths, outcomes,
                   code_samples, conversation_history, current_draft,
                   service_calls, completed, pc, trace>>

\* ---------------------------------------------------------------------- main
PathKinds == {"missing", "not_a_directory", "directory"}

Invoked(call, returned) == [call |-> call, returned |-> returned]

\* if not Path(repo_path).exists(): return / if not ...is_dir(): return
MainAfterValidate(kind) == IF kind = "directory" THEN "scan" ELSE "exit"

\* A variant without "if not code_files: return".
MainAfterScanUnchecked(files) == "read"
\* if not code_files: return
MainAfterScan(files) == IF files = <<>> THEN "exit" ELSE "read"

\* if not code_samples: return
MainAfterRead(samples) == IF samples = <<>> THEN "exit" ELSE "extract"

\* A variant that swallows the exception of extraction and goes on.
MainAfterExtractionSwallowed(exception) == "save"
\* draft = extractor_utils.extraction(code_samples): an exception is not caught
MainAfterExtraction(exception) == IF exception THEN "crashed" ELSE "save"

\* extractor_utils.save_draft() and the closing messages
MainAfterSave(exception) == IF exception THEN "crashed" ELSE "done"

MainValidate ==
    /\ pc = "start"
    /\ \E kind \in PathKinds :
        /\ pc' = MainAfterValidate(kind)
        /\ status' = kind
    /\ op' = "main"
    /\ UNCHANGED <<repo, disk, max_files, extensions, code_files, filepaths,
                   outcomes, code_samples, conversation_history, current_draft,
                   content, raised, service_calls, completed, trace>>

MainScan ==
    /\ pc = "scan"
    /\ max_files' = MAX_FILES
    /\ extensions' = Given(<<".py">>)
    /\ code_files' = ScanRepositoryResult(repo, MAX_FILES, Given(<<".py">>))
    /\ pc' = MainAfterScan(code_files')
    /\ trace' = Append(trace, Invoked("scan_repository", TRUE))
    /\ op' = "scan_repository"
    /\ status' = "found"
    /\ raised' = FALSE
    /\ UNCHANGED <<repo, disk, filepaths, outcomes, code_samples,
                   conversation_history, current_draft, content, service_calls,
                   completed>>

MainRead ==
    /\ pc = "read"
    /\ \E outs \in [1..Len(code_files) -> ReadOutcomes] :
        LET r == ReadFilesResult(code_files, outs)
        IN  /\ filepaths' = code_files
            /\ outcomes' = outs
            /\ code_samples' = IF r.raised THEN code_samples ELSE r.samples
            /\ status' = IF r.raised THEN "exception" ELSE "total"
            /\ raised' = r.raised
            /\ pc' = IF r.raised THEN "crashed" ELSE MainAfterRead(r.samples)
            /\ trace' = Append(trace, Invoked("read_files", ~r.raised))
    /\ op' = "read_files"
    /\ UNCHANGED <<repo, disk, max_files, extensions, code_files,
                   conversation_history, current_draft, content, service_calls,
                   completed>>

MainExtract ==
    /\ pc = "extract"
    /\ \E outcome \in ServiceOutcomes, text \in Texts :
        LET r == ExtractionResult(conversation_history, current_draft,
                                  Prompt(code_samples), outcome, text)
        IN  /\ conversation_history' = r.history
            /\ current_draft' = r.draft
            /\ completed' = IF r.raised THEN completed ELSE completed + 1
            /\ status' = outcome
            /\ raised' = r.raised
            /\ pc' = MainAfterExtraction(r.raised)
            /\ trace' = Append(trace, Invoked("extraction", ~r.raised))
    /\ service_calls' = service_calls + 1
    /\ op' = "extraction"
    /\ UNCHANGED <<repo, disk, max_files, extensions, code_files, filepaths,
                   outcomes, code_samples, content>>

MainSave ==
    /\ pc = "save"
    /\ \E write \in WriteOutcomes :
        LET r == SaveDraftResult(None, current_draft, write, disk)
        IN  /\ disk' = r.disk
            /\ status' = r.status
            /\ raised' = r.raised
            /\ pc' = MainAfterSave(r.raised)
            /\ trace' = Append(trace, Invoked("save_draft", ~r.raised))
    /\ content' = None
    /\ op' = "save_draft"
    /\ UNCHANGED <<repo, max_files, extensions, code_files, filepaths, outcomes,
                   code_samples, conversation_history, current_draft,
                   service_calls, completed>>

\* ------------------------------------------------------------ specifications
NoScanYet == max_files = 0 /\ extensions = NotGiven
NoReadYet == filepaths = <<>> /\ outcomes = <<>>

\* scan_repository applied once to each repository and argument list
ScanInit ==
    /\ Constructed
    /\ NoReadYet
    /\ repo \in Repos
    /\ disk = "absent"
    /\ max_files \in 0..MaxN
    /\ extensions \in ExtensionArgs
ScanNext == ScanRepository
ScanSpec == ScanInit /\ [][ScanNext]_vars

\* read_files applied once to each sequence of candidate paths
ReadInit ==
    /\ Constructed
    /\ NoScanYet
    /\ repo \in {RepoOf([i \in 1..n |-> ".py"]) : n \in 0..MaxRepo}
    /\ disk = "absent"
    /\ filepaths \in SeqsUpTo({repo[i] : i \in 1..Len(repo)}, MaxPaths)
    /\ outcomes \in [1..Len(filepaths) -> ReadOutcomes]
ReadNext == ReadFiles
ReadSpec == ReadInit /\ [][ReadNext]_vars

\* one session object used by a client
Init ==
    /\ Constructed
    /\ NoScanYet
    /\ NoReadYet
    /\ repo = <<>>
    /\ disk \in DiskStates
Next == Extraction \/ SaveDraft
Spec == Init /\ [][Next]_vars

\* one run of main
MainInit ==
    /\ Constructed
    /\ NoScanYet
    /\ NoReadYet
    /\ repo \in Repos
    /\ disk \in DiskStates
MainNext == MainValidate \/ MainScan \/ MainRead \/ MainExtract \/ MainSave
MainSpec == MainInit /\ [][MainNext]_vars

\* -------------------------------------------------------------------- claims
Scanned == op = "scan_repository"

\* C1: scan_repository enforces max_files as a hard global cap: whatever the
\* root, max_files and the ordered list of extensions, it returns at most
\* max_files paths.
C1_HardGlobalCap == Scanned => Len(code_files) <= max_files

\* C2: with a single extension configured and more than max_files files
\* matching it, scan_repository returns exactly max_files paths.
C2_ExactlyMaxFiles ==
    (/\ Scanned
     /\ Len(Extensions(extensions)) = 1
     /\ Len(RGlob(repo, Extensions(extensions)[1])) > max_files)
    => Len(code_files) = max_files

\* C3: in every state of a session, whatever mix of successful and failed
\* extraction calls led to it, conversation_history alternates user/assistant
\* starting with user, and never ends with two turns of the same role.
C3_HistoryAlternates ==
    LET h == conversation_history
    IN  /\ \A i \in 1..Len(h) :
             h[i].role = IF i % 2 = 1 THEN "user" ELSE "assistant"
        /\ Len(h) >= 2 => h[Len(h)].role # h[Len(h) - 1].role

C3_Witness ==
    /\ Len(conversation_history) = 4
    /\ op = "extraction"
    /\ status = "network_error"
    /\ raised

ExtractionStep == service_calls' = service_calls + 1

\* C4: an extraction call that ends in an error (network, authentication,
\* rate limit, or a malformed response such as one without text or without a
\* usage counter) appends no turn and leaves current_draft as it was.
C4_FailedCallChangesNothing ==
    [][(ExtractionStep /\ raised')
        => /\ conversation_history' = conversation_history
           /\ current_draft' = current_draft]_vars

IsPrefix(s, t) == Len(s) <= Len(t) /\ SubSeq(t, 1, Len(s)) = s

\* C5: conversation_history is append-only; each extraction call that
\* returns extends it by exactly the user turn with the prompt and the
\* assistant turn with the returned text, which becomes current_draft; so
\* after k such calls its length is exactly 2k.
C5_TwoTurnsPerSuccess ==
    /\ [][IsPrefix(conversation_history, conversation_history')]_vars
    /\ [][(ExtractionStep /\ ~raised')
           => /\ conversation_history' =
                   conversation_history \o
                     <<UserTurn(Prompt(code_samples')),
                       AssistantTurn(current_draft')>>
              /\ current_draft' \in Texts]_vars
    /\ [](Len(conversation_history) = 2 * completed)

\* C6: read_files never raises; it returns one sample per file that was read
\* and none per file that failed, in the order of the paths given.
C6_ReadFilesSkipsFailures ==
    op = "read_files" =>
        LET read == {i \in 1..Len(filepaths) : outcomes[i] = "ok"}
            n    == Len(code_samples)
        IN  /\ ~raised
            /\ n = Cardinality(read)
            /\ \E f \in [1..n -> read] :
                 /\ \A j, k \in 1..n : j < k => f[j] < f[k]
                 /\ \A k \in 1..n :
                      code_samples[k] =
                        [path |-> RelativeTo(filepaths[f[k]], repo_path),
                         content |-> FileText(filepaths[f[k]]),
                         lines |-> Len(FileText(filepaths[f[k]]))]

C6_Witness ==
    /\ op = "read_files"
    /\ Len(filepaths) = 3
    /\ outcomes[1] = "ok" /\ outcomes[2] = "decode_error" /\ outcomes[3] = "ok"
    /\ Len(code_samples) = 2

SaveInvoked == \E i \in 1..Len(trace) : trace[i].call = "save_draft"

ServiceCallFailed ==
    /\ op = "extraction"
    /\ status \in {"network_error", "authentication_error", "rate_limit_error"}

C8_NothingToSaveIsNoOp ==
    [][(op' = "save_draft" /\ content' = None /\ current_draft = None)
        => /\ status' = "no_content"
           /\ ~raised'
           /\ disk' = disk
           /\ current_draft' = current_draft
           /\ conversation_history' = conversation_history]_vars

C8_Witness ==
    /\ op = "save_draft"
    /\ content = None
    /\ status = "no_content"
    /\ disk = "old_guide"
    /\ service_calls = 1

\* C9: when the write of save_draft fails, save_draft reports it and returns
\* normally; current_draft and conversation_history are unchanged, save_draft
\* is invoked once, and main goes on to its normal completion.
C9_WriteFailureIsContained ==
    /\ [][(pc = "save" /\ status' = "write_error")
           => /\ pc' = "done"
              /\ ~raised'
              /\ current_draft' = current_draft
              /\ conversation_history' = conversation_history
              /\ service_calls' = service_calls]_vars
    /\ [](pc = "done" =>
            /\ Cardinality({i \in 1..Len(trace) : trace[i].call = "save_draft"}) = 1
            /\ status \in {"saved", "write_error"})

C9_Witness ==
    /\ pc = "done"
    /\ status = "write_error"
    /\ disk = "truncated"

Pipeline == <<"scan_repository", "read_files", "extraction", "save_draft">>

\* C10: main invokes Scanner, Reader, Session, Store in that order, each at
\* most once; an empty scan stops the run before the Reader, an empty read
\* stops it before the Session, and the Store runs only after the Session
\* call returned.
C10_PipelineOrder ==
    /\ Len(trace) <= Len(Pipeline)
    /\ \A i \in 1..Len(trace) : trace[i].call = Pipeline[i]
    /\ Len(trace) >= 2 => code_files # <<>>
    /\ Len(trace) >= 3 => code_files # <<>> /\ code_samples # <<>>
    /\ Len(trace) >= 4 => trace[3].returned
    /\ (Len(trace) >= 1 /\ code_files = <<>>) => pc = "exit"
    /\ (Len(trace) >= 2 /\ code_samples = <<>>) => pc = "exit"

C10_Witness ==
    /\ pc = "exit"
    /\ Len(trace) = 2
    /\ code_samples = <<>>
    /\ Len(code_files) = 2

====
